---- MODULE Spec2Model ----
(***************************************************************************)
(* Per-connection login / configuration state machine of the Pumpkin       *)
(* server: pumpkin/src/client/client_packet.rs (impl Client).              *)
(*                                                                         *)
(* One connection is modelled.  Every inbound packet is one action that    *)
(* runs the whole handler; the only handler that is split is               *)
(* handle_encryption_response, at the `.await` of the identity-service     *)
(* call.  Handlers are written as operators from a client record to a      *)
(* client record so that the code's statement order (a kick followed by    *)
(* more statements) is kept.                                               *)
(***************************************************************************)
EXTENDS Integers, Sequences, FiniteSets, TLC

VARIABLES
    connection_state,   \* Client.connection_state
    protocol_version,   \* Client.protocol_version
    server_address,     \* Client.server_address
    gameprofile,        \* Client.gameprofile : Option<GameProfile>
    encryption,         \* cipher enabled on the stream (set_encryption)
    compression,        \* Option<threshold> (set_compression)
    config,             \* Client.config : Option<PlayerConfig>
    brand,              \* Client.brand : Option<String>
    make_player,        \* Client.make_player
    closed,             \* Client.closed
    sent,               \* packets written to the client, in order
    panicked,           \* the connection task was aborted by a panic
    ciphers,            \* encryption contexts installed so far (history)
    compressions,       \* compression contexts installed so far (history)
    pc,                 \* "idle", or "auth" while suspended in autenticate
    pending,            \* data of the handler suspended at the await
    gameprofile_lock,   \* holder of the gameprofile mutex between steps
    snapshot,           \* what an auxiliary reader last read (<<>>: nothing)
    commands,           \* CommandDispatcher.commands : name -> Command
    cmd,                \* the command line given to dispatch (its tokens)
    sender,             \* the CommandSender
    dispatched,         \* Option<result of dispatch>
    packets,            \* number of inbound packets handled so far
    inbound,            \* the inbound packet handled last (history)
    auth_result,        \* what the identity-service step last gave (history)
    BASIC_CONFIG,       \* pumpkin_config::BASIC_CONFIG (immutable)
    ADVANCED_CONFIG,    \* pumpkin_config::ADVANCED_CONFIG (immutable)
    server,             \* the shared Server (immutable)
    name_in,            \* input of the name-validator specification
    name_ok             \* its result: <<>> before the call, <<b>> after

vars == <<connection_state, protocol_version, server_address, gameprofile,
          encryption, compression, config, brand, make_player, closed, sent,
          panicked, ciphers, compressions, pc, pending, gameprofile_lock,
          snapshot, commands, cmd, sender, dispatched, packets, inbound,
          auth_result, BASIC_CONFIG, ADVANCED_CONFIG, server, name_in, name_ok>>

connVars == <<connection_state, protocol_version, server_address, gameprofile,
              encryption, compression, config, brand, make_player, closed,
              sent, panicked, ciphers, compressions>>

envVars == <<BASIC_CONFIG, ADVANCED_CONFIG, server>>

nameVars == <<name_in, name_ok>>

\* state of the parts beside the connection's own task
dispatchVars == <<commands, cmd, sender, dispatched>>

sideVars == <<snapshot, dispatchVars>>

----------------------------------------------------------------------------
(* Bounds of the model *)

\* inbound packets handled on the connection
MaxPackets == 6
\* declared protocol versions range over CURRENT_MC_PROTOCOL +/- VersionSpread
VersionSpread == 1
\* length of the cached registry list
MaxRegistry == 2
\* longest name (in characters) given to the validator
MaxNameLen == 17

----------------------------------------------------------------------------
(* Option<T> *)

None == <<>>

Some(x) == <<x>>

IsSome(o) == o # <<>>

Unwrap(o) == o[1]

----------------------------------------------------------------------------
(* Program constants *)

CURRENT_MC_PROTOCOL == 763

MAX_NAME_BYTES == 16

NAME_CHAR_LOW == 32

NAME_CHAR_HIGH == 127

----------------------------------------------------------------------------
(* Strings: a &str is the sequence of its chars (code points); len() is    *)
(* the length of its UTF-8 encoding.                                       *)

\* bytes of the UTF-8 encoding of one char
Utf8(c) ==
    IF c < 128 THEN << c >>
    ELSE IF c < 2048 THEN << 192 + (c \div 64), 128 + (c % 64) >>
    ELSE IF c < 65536 THEN
        << 224 + (c \div 4096), 128 + ((c \div 64) % 64), 128 + (c % 64) >>
    ELSE << 240 + (c \div 262144), 128 + ((c \div 4096) % 64),
            128 + ((c \div 64) % 64), 128 + (c % 64) >>

RECURSIVE as_bytes(_)
as_bytes(s) == IF s = <<>> THEN <<>> ELSE Utf8(Head(s)) \o as_bytes(Tail(s))

\* str::len
str_len(s) == Len(as_bytes(s))

is_valid_player_name_len_off_by_one(name) ==
    /\ str_len(name) < MAX_NAME_BYTES
    /\ \A i \in 1..Len(name) : name[i] > NAME_CHAR_LOW /\ name[i] < NAME_CHAR_HIGH

is_valid_player_name(name) ==
    /\ str_len(name) <= MAX_NAME_BYTES
    /\ \A i \in 1..Len(name) : name[i] > NAME_CHAR_LOW /\ name[i] < NAME_CHAR_HIGH

----------------------------------------------------------------------------
(* The client record that the handlers transform *)

Self ==
    [connection_state |-> connection_state,
     protocol_version |-> protocol_version,
     server_address   |-> server_address,
     gameprofile      |-> gameprofile,
     encryption       |-> encryption,
     compression      |-> compression,
     config           |-> config,
     brand            |-> brand,
     make_player      |-> make_player,
     closed           |-> closed,
     sent             |-> sent,
     panicked         |-> panicked,
     ciphers          |-> ciphers,
     compressions     |-> compressions]

Commit(c) ==
    /\ connection_state' = c.connection_state
    /\ protocol_version' = c.protocol_version
    /\ server_address'   = c.server_address
    /\ gameprofile'      = c.gameprofile
    /\ encryption'       = c.encryption
    /\ compression'      = c.compression
    /\ config'           = c.config
    /\ brand'            = c.brand
    /\ make_player'      = c.make_player
    /\ closed'           = c.closed
    /\ sent'             = c.sent
    /\ panicked'         = c.panicked
    /\ ciphers'          = c.ciphers
    /\ compressions'     = c.compressions

\* Client::send_packet: the packet is written to the connection
send_packet(c, p) == [c EXCEPT !.sent = Append(@, p)]

\* Client::close
close(c) == [c EXCEPT !.closed = TRUE, !.connection_state = "Closed"]

\* Client::kick: a disconnect notice with the reason, then close
kick(c, reason) ==
    close(send_packet(c, [type |-> "Disconnect", reason |-> reason]))

\* an unwrap() on None / Err: the task unwinds, nothing more is done
panic(c) == [c EXCEPT !.panicked = TRUE]

----------------------------------------------------------------------------
(* handle_handshake *)

ClientOutdated(protocol) ==
    [msg |-> "Client outdated", client |-> protocol,
     protocol |-> CURRENT_MC_PROTOCOL]

ServerOutdated ==
    [msg |-> "Server outdated", protocol |-> CURRENT_MC_PROTOCOL]

handle_handshake_accepts_newer(c, handshake) ==
    LET c1 == [c EXCEPT !.protocol_version = handshake.protocol_version,
                        !.server_address = handshake.server_address,
                        !.connection_state = handshake.next_state]
        protocol == handshake.protocol_version
    IN  IF c1.connection_state # "Status"
        THEN IF protocol < CURRENT_MC_PROTOCOL
             THEN kick(c1, ClientOutdated(protocol))
             ELSE c1
        ELSE c1

handle_handshake(c, handshake) ==
    LET c1 == [c EXCEPT !.protocol_version = handshake.protocol_version,
                        !.server_address = handshake.server_address,
                        !.connection_state = handshake.next_state]
        protocol == handshake.protocol_version
    IN  IF c1.connection_state # "Status"
        THEN IF protocol < CURRENT_MC_PROTOCOL
             THEN kick(c1, ClientOutdated(protocol))
             ELSE IF protocol = CURRENT_MC_PROTOCOL
             THEN c1
             ELSE kick(c1, ServerOutdated)
        ELSE c1

----------------------------------------------------------------------------
(* Status *)

handle_status_request(c) == send_packet(c, [type |-> "StatusResponse"])

handle_ping_request(c, ping_request) ==
    close(send_packet(c, [type |-> "PingResponse",
                          payload |-> ping_request.payload]))

----------------------------------------------------------------------------
(* Login *)

\* CLoginSuccess::new(&profile.id, &profile.name, &profile.properties, false)
CLoginSuccess(profile) ==
    [type |-> "LoginSuccess", uuid |-> profile.id, name |-> profile.name,
     properties |-> profile.properties]

finish_login(c, profile) ==
    LET c1 == IF ADVANCED_CONFIG.packet_compression.enabled
              THEN LET threshold == ADVANCED_CONFIG.packet_compression.threshold
                   IN  [send_packet(c, [type |-> "SetCompression",
                                        threshold |-> threshold])
                           EXCEPT !.compression = Some(threshold),
                                  !.compressions = @ + 1]
              ELSE c
    IN  send_packet(c1, CLoginSuccess(profile))

\* proxy::velocity::velocity_login: asks the proxy for the forwarded identity
velocity_login(c) == send_packet(c, [type |-> "LoginPluginRequest"])

InvalidUsername == [msg |-> "Invalid characters in username"]

\* the provisional profile built from the client's own fields
ProvisionalProfile(login_start) ==
    [id |-> login_start.uuid, name |-> login_start.name,
     properties |-> <<>>, profile_actions |-> None]

handle_login_start_no_name_check(c, login_start, verify_token, bungeecord) ==
    LET c1 == [c EXCEPT !.gameprofile = Some(ProvisionalProfile(login_start))]
    IN  send_packet(c1, [type |-> "EncryptionRequest",
                         verify_token |-> verify_token,
                         should_authenticate |-> BASIC_CONFIG.online_mode])

\* verify_token: the value rand::random() yields; bungeecord: the result of
\* bungeecord_login (read only on that branch)
handle_login_start(c, login_start, verify_token, bungeecord) ==
    IF ~is_valid_player_name(login_start.name)
    THEN kick(c, InvalidUsername)
    ELSE IF ADVANCED_CONFIG.proxy.enabled
    THEN IF ADVANCED_CONFIG.proxy.velocity
         THEN velocity_login(c)
         ELSE IF ADVANCED_CONFIG.proxy.bungeecord
         THEN IF bungeecord.ok
              THEN [finish_login(c, bungeecord.profile)
                       EXCEPT !.gameprofile = Some(bungeecord.profile)]
              ELSE kick(c, [msg |-> bungeecord.error])
         ELSE c
    ELSE LET c1 == [c EXCEPT !.gameprofile =
                                  Some(ProvisionalProfile(login_start))]
         IN  send_packet(c1, [type |-> "EncryptionRequest",
                              verify_token |-> verify_token,
                              should_authenticate |-> BASIC_CONFIG.online_mode])

\* Server::decrypt: RSA decryption with the server's private key
decrypt(shared_secret) ==
    IF shared_secret = "undecryptable"
    THEN [ok |-> FALSE, error |-> "decryption error"]
    ELSE [ok |-> TRUE, value |-> shared_secret]

\* Client::set_encryption(Some(secret)): the key must be 16 bytes long
set_encryption(c, secret) ==
    IF secret = "wrong_length"
    THEN [ok |-> FALSE, client |-> c, error |-> "Shared secret has the wrong length"]
    ELSE [ok |-> TRUE,
          client |-> [c EXCEPT !.encryption = TRUE, !.ciphers = @ + 1]]

\* lines 116-119: decrypt(..).unwrap(), set_encryption(..).unwrap_or_else(kick)
handle_encryption_response_begin(c, encryption_response) ==
    LET d == decrypt(encryption_response.shared_secret)
    IN  IF ~d.ok THEN panic(c)
        ELSE LET e == set_encryption(c, d.value)
             IN  IF e.ok THEN e.client
                 ELSE kick(e.client, [msg |-> e.error])

CantJoin == [msg |-> "Your account can't join"]

Contains(seq, x) == \E i \in 1..Len(seq) : seq[i] = x

\* lines 176-184: one kick for every allowed action the profile lacks
RECURSIVE allowed_actions_loop(_, _, _)
allowed_actions_loop(c, allowed, actions) ==
    IF allowed = <<>> THEN c
    ELSE allowed_actions_loop(
             IF ~Contains(actions, Head(allowed)) THEN kick(c, CantJoin) ELSE c,
             Tail(allowed), actions)

\* authentication::validate_textures of one property
validate_textures(property) ==
    IF property.texture_ok THEN [ok |-> TRUE]
    ELSE [ok |-> FALSE, error |-> "TextureError"]

\* lines 188-191: the first invalid property ends the call with `?`
RECURSIVE textures_loop(_)
textures_loop(properties) ==
    IF properties = <<>> THEN [ok |-> TRUE]
    ELSE IF ~validate_textures(Head(properties)).ok
    THEN validate_textures(Head(properties))
    ELSE textures_loop(Tail(properties))

\* lines 164-192: autenticate from the return of authentication::authenticate
autenticate_resume(c, response) ==
    IF ~response.ok
    THEN [client |-> c, ok |-> FALSE, error |-> response.error]
    ELSE LET profile == response.profile
             c1 == IF IsSome(profile.profile_actions)
                   THEN LET actions == Unwrap(profile.profile_actions)
                        IN  IF ~ADVANCED_CONFIG.authentication.allow_banned_players
                            THEN IF actions # <<>>
                                 THEN kick(c, CantJoin)
                                 ELSE c
                            ELSE allowed_actions_loop(c,
                                     ADVANCED_CONFIG.authentication.allowed_actions,
                                     actions)
                   ELSE c
             t == textures_loop(profile.properties)
         IN  IF ~t.ok
             THEN [client |-> c1, ok |-> FALSE, error |-> t.error]
             ELSE [client |-> c1, ok |-> TRUE, profile |-> profile]

NoGameProfile == [msg |-> "No Game profile"]

\* lines 135-139
handle_encryption_response_finish(c) ==
    IF IsSome(c.gameprofile)
    THEN finish_login(c, Unwrap(c.gameprofile))
    ELSE kick(c, NoGameProfile)

\* lines 127-139: the match on autenticate's result, then the finish
handle_encryption_response_end(c, auth) ==
    LET c1 == auth.client
        c2 == IF auth.ok
              THEN [c1 EXCEPT !.gameprofile = Some(auth.profile)]
              ELSE kick(c1, [msg |-> auth.error])
    IN  handle_encryption_response_finish(c2)

----------------------------------------------------------------------------
(* Configuration phase *)

\* Uuid::new_v3(&NAMESPACE_DNS, url.as_bytes()): a function of namespace and url
new_v3(namespace, name) == [namespace |-> namespace, name |-> name]

handle_login_acknowledged_always_prompts(c) ==
    LET c1 == send_packet([c EXCEPT !.connection_state = "Config"],
                          [type |-> "Branding"])
        resource_config == ADVANCED_CONFIG.resource_pack
        c2 == IF resource_config.enabled
              THEN send_packet(c1,
                       [type |-> "AddResourcePack",
                        uuid |-> new_v3("NAMESPACE_DNS",
                                        resource_config.resource_pack_url),
                        url |-> resource_config.resource_pack_url,
                        sha1 |-> resource_config.resource_pack_sha1,
                        forced |-> resource_config.force,
                        prompt |-> Some(resource_config.prompt_message)])
              ELSE c1
    IN  send_packet(c2, [type |-> "KnownPacks",
                         packs |-> << [namespace |-> "minecraft",
                                       id |-> "core", version |-> "1.21"] >>])

handle_login_acknowledged(c) ==
    LET c1 == send_packet([c EXCEPT !.connection_state = "Config"],
                          [type |-> "Branding"])
        resource_config == ADVANCED_CONFIG.resource_pack
        c2 == IF resource_config.enabled
              THEN send_packet(c1,
                       [type |-> "AddResourcePack",
                        uuid |-> new_v3("NAMESPACE_DNS",
                                        resource_config.resource_pack_url),
                        url |-> resource_config.resource_pack_url,
                        sha1 |-> resource_config.resource_pack_sha1,
                        forced |-> resource_config.force,
                        prompt |-> IF resource_config.prompt_message # ""
                                   THEN Some(resource_config.prompt_message)
                                   ELSE None])
              ELSE c1
    IN  send_packet(c2, [type |-> "KnownPacks",
                         packs |-> << [namespace |-> "minecraft",
                                       id |-> "core", version |-> "1.21"] >>])

\* Hand::from_i32 / ChatMode::from_i32: Some only for a known discriminant
from_i32(n, count) == IF n >= 0 /\ n < count THEN Some(n) ELSE None

handle_client_information_config(c, client_information) ==
    LET main_hand == from_i32(client_information.main_hand, 2)
        chat_mode == from_i32(client_information.chat_mode, 3)
    IN  IF IsSome(main_hand) /\ IsSome(chat_mode)
        THEN [c EXCEPT !.config =
                  Some([locale    |-> client_information.locale,
                        chat_mode |-> Unwrap(chat_mode),
                        main_hand |-> Unwrap(main_hand)])]
        ELSE kick(c, [msg |-> "Invalid hand or chat type"])

\* channel.starts_with("minecraft:brand") || channel.starts_with("MC|Brand"):
\* the channels of the model are the two spellings and one other channel
handle_plugin_message(c, plugin_message) ==
    IF plugin_message.channel \in {"minecraft:brand", "MC|Brand"}
    THEN IF plugin_message.utf8
         THEN [c EXCEPT !.brand = Some(plugin_message.data)]
         ELSE kick(c, [msg |-> "invalid utf-8 sequence"])
    ELSE c

RECURSIVE send_registries(_, _)
send_registries(c, registries) ==
    IF registries = <<>> THEN c
    ELSE send_registries(
             send_packet(c, [type |-> "RegistryData",
                             registry_id |-> Head(registries).registry_id,
                             entries |-> Head(registries).registry_entries]),
             Tail(registries))

handle_known_packs_finish_first(c) ==
    send_registries(send_packet(c, [type |-> "FinishConfig"]),
                    server.cached_registry)

handle_known_packs(c) ==
    send_packet(send_registries(c, server.cached_registry),
                [type |-> "FinishConfig"])

handle_config_acknowledged_back_to_login(c) ==
    [c EXCEPT !.connection_state = "Login", !.make_player = TRUE]

handle_config_acknowledged(c) ==
    [c EXCEPT !.connection_state = "Play", !.make_player = TRUE]

----------------------------------------------------------------------------
(* Inputs *)

Versions ==
    (CURRENT_MC_PROTOCOL - VersionSpread)..(CURRENT_MC_PROTOCOL + VersionSpread)

\* SHandShake.next_state
NextStates == {"Status", "Login"}

\* "Steve" and "a b"
Names == { <<83, 116, 101, 118, 101>>, <<97, 32, 98>> }

LoginStarts == [name : Names, uuid : {"uuid-client"}]

\* values rand::random() may yield for the verify token
VerifyTokens == {"token-a", "token-b"}

\* SEncryptionResponse.shared_secret: not decryptable with the server's key,
\* decryptable to a key of the wrong length, decryptable to a 16-byte key
SharedSecrets == {"undecryptable", "wrong_length", "secret16"}

GoodTexture == [name |-> "textures", texture_ok |-> TRUE]

BadTexture == [name |-> "textures", texture_ok |-> FALSE]

\* the profiles the identity service may return for a user name
ServiceProfiles(username) ==
    { [id |-> "uuid-service", name |-> username, properties |-> pr,
       profile_actions |-> pa] :
        pr \in { <<>>, <<GoodTexture>>, <<BadTexture>> },
        pa \in { None, Some(<<>>), Some(<<"FORCED_NAME_CHANGE">>) } }

\* AuthError values authentication::authenticate may fail with
ServiceErrors == {"FailedResponse", "UnverifiedUsername", "UnknownStatusCode"}

AuthResponses(username) ==
    { [ok |-> TRUE, profile |-> p] : p \in ServiceProfiles(username) }
        \cup { [ok |-> FALSE, error |-> e] : e \in ServiceErrors }

\* results of proxy::bungeecord::bungeecord_login
BungeecordResults(login_start) ==
    { [ok |-> TRUE,
       profile |-> [id |-> "uuid-proxy", name |-> login_start.name,
                    properties |-> <<>>, profile_actions |-> None]],
      [ok |-> FALSE, error |-> "bungeecord: no forwarded data"] }

ClientInformations ==
    [locale : {"en_us"}, main_hand : {1, 7}, chat_mode : {0}]

PluginMessages ==
    { [channel |-> "minecraft:brand", data |-> "vanilla", utf8 |-> TRUE],
      [channel |-> "MC|Brand", data |-> "bytes", utf8 |-> FALSE],
      [channel |-> "other:channel", data |-> "x", utf8 |-> TRUE] }

Registries ==
    { [registry_id |-> "minecraft:biome", registry_entries |-> "biomes"],
      [registry_id |-> "minecraft:chat_type", registry_entries |-> "chat"] }

RegistryLists == UNION { [1..n -> Registries] : n \in 0..MaxRegistry }

----------------------------------------------------------------------------
(* Configurations *)

ProxyConfigs ==
    { [enabled |-> FALSE, velocity |-> FALSE, bungeecord |-> FALSE],
      [enabled |-> TRUE,  velocity |-> FALSE, bungeecord |-> TRUE] }

CompressionConfigs == [enabled : BOOLEAN, threshold : {256}]

\* the allow-list is read only when banned players are allowed
AuthenticationConfigs ==
    { [allow_banned_players |-> FALSE, allowed_actions |-> <<>>] }
        \cup [allow_banned_players : {TRUE},
              allowed_actions : { <<>>, <<"FORCED_NAME_CHANGE">>,
                                  <<"FORCED_NAME_CHANGE", "USING_BANNED_SKIN">> }]

ResourcePackConfigs ==
    { [enabled |-> FALSE, resource_pack_url |-> "", resource_pack_sha1 |-> "",
       force |-> FALSE, prompt_message |-> ""] }
        \cup [enabled : {TRUE},
              resource_pack_url : {"https://pack", "https://other"},
              resource_pack_sha1 : {"sha1"}, force : {FALSE},
              prompt_message : {"", "please"}]

NoResourcePack ==
    [enabled |-> FALSE, resource_pack_url |-> "", resource_pack_sha1 |-> "",
     force |-> FALSE, prompt_message |-> ""]

\* the identity-service settings are read only in online mode
LoginEnvironments ==
    { e \in [online_mode : BOOLEAN, auth_client : {None, Some("auth")},
             proxy : ProxyConfigs, packet_compression : CompressionConfigs,
             authentication : AuthenticationConfigs] :
        ~e.online_mode =>
            /\ e.auth_client = None
            /\ ~e.authentication.allow_banned_players }

InitConnection ==
    /\ connection_state = "HandShake"
    /\ protocol_version = 0
    /\ server_address = ""
    /\ gameprofile = None
    /\ encryption = FALSE
    /\ compression = None
    /\ config = None
    /\ brand = None
    /\ make_player = FALSE
    /\ closed = FALSE
    /\ sent = <<>>
    /\ panicked = FALSE
    /\ ciphers = 0
    /\ compressions = 0
    /\ pc = "idle"
    /\ pending = None
    /\ gameprofile_lock = "free"
    /\ snapshot = <<>>
    /\ packets = 0
    /\ inbound = None
    /\ auth_result = None

\* offline, no proxy, no compression
DefaultLogin ==
    [online_mode |-> FALSE, auth_client |-> None,
     proxy |-> [enabled |-> FALSE, velocity |-> FALSE, bungeecord |-> FALSE],
     packet_compression |-> [enabled |-> FALSE, threshold |-> 256],
     authentication |-> [allow_banned_players |-> FALSE,
                         allowed_actions |-> <<>>]]

\* every login configuration with the default configuration phase, and
\* every configuration phase with the default login configuration
Environments ==
    { [login |-> e, resource_pack |-> NoResourcePack, cached_registry |-> <<>>] :
        e \in LoginEnvironments }
    \cup
    { [login |-> DefaultLogin, resource_pack |-> r, cached_registry |-> l] :
        r \in ResourcePackConfigs, l \in RegistryLists }

InitEnvironment(env) ==
    /\ BASIC_CONFIG = [online_mode |-> env.login.online_mode]
    /\ ADVANCED_CONFIG =
           [proxy |-> env.login.proxy,
            packet_compression |-> env.login.packet_compression,
            authentication |-> env.login.authentication,
            resource_pack |-> env.resource_pack]
    /\ server = [auth_client |-> env.login.auth_client,
                 cached_registry |-> env.cached_registry]

\* no command registered, none dispatched
EmptyMap == [k \in {} |-> None]

InitDispatcher ==
    /\ commands = EmptyMap
    /\ cmd = <<>>
    /\ sender = [op |-> FALSE]
    /\ dispatched = None

Init ==
    /\ InitConnection
    /\ \E env \in Environments : InitEnvironment(env)
    /\ name_in = <<>>
    /\ name_ok = None
    /\ InitDispatcher

----------------------------------------------------------------------------
(* The packet loop: one inbound packet at a time, routed by the current    *)
(* state; nothing is handled once the connection is closed.                *)

Ready ==
    /\ pc = "idle"
    /\ ~closed
    /\ ~panicked
    /\ packets < MaxPackets

Handled(c, packet) ==
    /\ Commit(c)
    /\ packets' = packets + 1
    /\ inbound' = Some(packet)
    /\ UNCHANGED <<pc, pending, gameprofile_lock, auth_result, envVars,
                   nameVars, sideVars>>

HandShake ==
    /\ Ready
    /\ connection_state = "HandShake"
    /\ \E v \in Versions, n \in NextStates :
        LET handshake == [type |-> "Handshake", protocol_version |-> v,
                          server_address |-> "localhost", next_state |-> n]
        IN  Handled(handle_handshake(Self, handshake), handshake)

StatusRequest ==
    /\ Ready
    /\ connection_state = "Status"
    /\ Handled(handle_status_request(Self), [type |-> "StatusRequest"])

PingRequest ==
    /\ Ready
    /\ connection_state = "Status"
    /\ Handled(handle_ping_request(Self, [payload |-> 42]),
               [type |-> "PingRequest", payload |-> 42])

LoginStart ==
    /\ Ready
    /\ connection_state = "Login"
    /\ \E l \in LoginStarts, t \in VerifyTokens :
        \E b \in BungeecordResults(l) :
            Handled(handle_login_start(Self, l, t, b),
                    [type |-> "LoginStart", name |-> l.name, uuid |-> l.uuid])

MissingAuthClient == "MissingAuthClient"

\* lines 116-126, up to the await inside autenticate; the rest of the
\* handler when autenticate is not called or returns without suspending.
\* The guard of gameprofile.lock() (line 121) lives to the end of the
\* handler, so it is held while the handler is suspended.
EncryptionResponse ==
    /\ Ready
    /\ connection_state = "Login"
    /\ \E s \in SharedSecrets, t \in VerifyTokens :
        LET c1 == handle_encryption_response_begin(Self,
                      [shared_secret |-> s, verify_token |-> t])
        IN  /\ packets' = packets + 1
            /\ inbound' = Some([type |-> "EncryptionResponse",
                                shared_secret |-> s, verify_token |-> t])
            /\ UNCHANGED <<envVars, nameVars, sideVars>>
            /\ IF c1.panicked
               THEN Commit(c1) /\ UNCHANGED <<pc, pending, gameprofile_lock, auth_result>>
               ELSE IF ~BASIC_CONFIG.online_mode
               THEN /\ Commit(handle_encryption_response_finish(c1))
                    /\ UNCHANGED <<pc, pending, gameprofile_lock, auth_result>>
               ELSE IF ~IsSome(c1.gameprofile)
               THEN Commit(panic(c1)) /\ UNCHANGED <<pc, pending, gameprofile_lock, auth_result>>
               ELSE IF ~IsSome(server.auth_client)
               THEN /\ Commit(handle_encryption_response_end(c1,
                               [client |-> c1, ok |-> FALSE,
                                error |-> MissingAuthClient]))
                    /\ auth_result' = Some([ok |-> FALSE,
                                            error |-> MissingAuthClient])
                    /\ UNCHANGED <<pc, pending, gameprofile_lock>>
               ELSE /\ UNCHANGED auth_result /\ Commit(c1)
                    /\ pc' = "auth"
                    /\ gameprofile_lock' = "session"
                    /\ pending' = Some(Unwrap(c1.gameprofile).name)

\* authentication::authenticate returns; lines 164-192 and 127-139 run
AuthenticateReturns ==
    /\ pc = "auth"
    /\ \E r \in AuthResponses(Unwrap(pending)) :
        /\ Commit(handle_encryption_response_end(Self,
                      autenticate_resume(Self, r)))
        /\ auth_result' = Some(r)
    /\ pc' = "idle"
    /\ pending' = None
    /\ gameprofile_lock' = "free"
    /\ UNCHANGED <<packets, inbound, envVars, nameVars, sideVars>>

LoginAcknowledged ==
    /\ Ready
    /\ connection_state = "Login"
    /\ Handled(handle_login_acknowledged(Self), [type |-> "LoginAcknowledged"])

ClientInformationConfig ==
    /\ Ready
    /\ connection_state = "Config"
    /\ \E i \in ClientInformations :
        Handled(handle_client_information_config(Self, i),
                [type |-> "ClientInformationConfig", main_hand |-> i.main_hand,
                 chat_mode |-> i.chat_mode])

PluginMessage ==
    /\ Ready
    /\ connection_state = "Config"
    /\ \E m \in PluginMessages :
        Handled(handle_plugin_message(Self, m),
                [type |-> "PluginMessage", channel |-> m.channel])

KnownPacks ==
    /\ Ready
    /\ connection_state = "Config"
    /\ Handled(handle_known_packs(Self), [type |-> "KnownPacks"])

AcknowledgeFinishConfig ==
    /\ Ready
    /\ connection_state = "Config"
    /\ Handled(handle_config_acknowledged(Self),
               [type |-> "AcknowledgeFinishConfig"])

Next ==
    \/ HandShake
    \/ StatusRequest
    \/ PingRequest
    \/ LoginStart
    \/ EncryptionResponse
    \/ AuthenticateReturns
    \/ LoginAcknowledged
    \/ ClientInformationConfig
    \/ PluginMessage
    \/ KnownPacks
    \/ AcknowledgeFinishConfig

Spec == Init /\ [][Next]_vars

----------------------------------------------------------------------------
(* The name validator on its own: Init draws the name, the action applies  *)
(* is_valid_player_name to it.                                             *)

\* control bytes, space, the printable range's ends, DEL, and chars whose
\* encoding takes 2, 3 and 4 bytes
NameChars == {0, 31, 32, 33, 126, 127, 128, 255, 2048, 65536}

\* n letters 'A', the one at position k (if any) replaced by ch
NameWith(n, k, ch) == [i \in 1..n |-> IF i = k THEN ch ELSE 65]

TestNames ==
    { NameWith(n, k, ch) : n \in 0..MaxNameLen, k \in 0..MaxNameLen,
                           ch \in NameChars }

InitName ==
    /\ InitConnection
    /\ InitEnvironment([login |-> DefaultLogin,
                        resource_pack |-> NoResourcePack,
                        cached_registry |-> <<>>])
    /\ name_in \in TestNames
    /\ name_ok = None
    /\ InitDispatcher

ValidateName ==
    /\ name_ok = None
    /\ name_ok' = Some(is_valid_player_name(name_in))
    /\ UNCHANGED <<connVars, pc, pending, gameprofile_lock, packets, inbound,
                   auth_result, envVars, name_in, sideVars>>

NextName == ValidateName

SpecName == InitName /\ [][NextName]_vars

----------------------------------------------------------------------------
(* An auxiliary reader of the connection (a status aggregator): it locks   *)
(* the gameprofile mutex, copies the profile and unlocks.                  *)

ReadGameProfile ==
    /\ gameprofile_lock = "free"
    /\ snapshot' = Some(gameprofile)
    /\ UNCHANGED <<connVars, pc, pending, gameprofile_lock, packets, inbound,
                   auth_result, envVars, nameVars, dispatchVars>>

\* online mode with an identity service, no proxy
InitReader ==
    /\ InitConnection
    /\ InitEnvironment(
           [login |-> [DefaultLogin EXCEPT !.online_mode = TRUE,
                                           !.auth_client = Some("auth")],
            resource_pack |-> NoResourcePack, cached_registry |-> <<>>])
    /\ name_in = <<>>
    /\ name_ok = None
    /\ InitDispatcher

NextReader ==
    \/ Next
    \/ ReadGameProfile

SpecReader == InitReader /\ [][NextReader]_vars

----------------------------------------------------------------------------
(* The command dispatcher (command/dispatcher.rs).  A command line is a    *)
(* sequence of tokens, each a word or a run of whitespace.                 *)

MaxPaths == 2
MaxArgs == 2

WHITESPACE == " "

\* NodeType
Literal(string) == [node_type |-> "Literal", string |-> string]

Argument(name, consumer) ==
    [node_type |-> "Argument", name |-> name, consumer |-> consumer]

Require(predicate) == [node_type |-> "Require", predicate |-> predicate]

ExecuteLeaf(executor) == [node_type |-> "ExecuteLeaf", executor |-> executor]

\* Command
Tree(tree) == [kind |-> "Tree", tree |-> tree]

Alias(target) == [kind |-> "Alias", target |-> target]

\* CommandError::GeneralCommandIssue
EmptyCommand == "Empty Command"

CommandNotFound == "Command not found"

InternalError == "Internal Error (See logs for details)"

InvalidSyntax == "Invalid Syntax. Usage: "

Ok(value) == [ok |-> TRUE, value |-> value]

Err(error) == [ok |-> FALSE, error |-> error]

\* HashMap::insert
insert(map, k, v) == [n \in DOMAIN map \cup {k} |-> IF n = k THEN v ELSE map[n]]

\* HashMap::get
get(map, k) == IF k \in DOMAIN map THEN Some(map[k]) ELSE None

\* str::split_whitespace
split_whitespace(line) == SelectSeq(line, LAMBDA t : t # WHITESPACE)

\* Iterator::rev
rev(s) == [i \in 1..Len(s) |-> s[Len(s) + 1 - i]]

\* Vec::pop: the last element leaves the vector
pop(raw_args) ==
    IF raw_args = <<>>
    THEN [value |-> None, raw_args |-> raw_args]
    ELSE [value |-> Some(raw_args[Len(raw_args)]),
          raw_args |-> SubSeq(raw_args, 1, Len(raw_args) - 1)]

Numbers == {"1"}

\* ArgumentConsumer::consume: one raw argument is popped and accepted or not
consume(consumer, raw_args) ==
    LET popped == pop(raw_args) IN
    IF popped.value = None
    THEN [consumed |-> None, raw_args |-> popped.raw_args]
    ELSE IF consumer = "number" /\ Unwrap(popped.value) \notin Numbers
    THEN [consumed |-> None, raw_args |-> popped.raw_args]
    ELSE [consumed |-> popped.value, raw_args |-> popped.raw_args]

\* the predicate of a Require node, applied to the sender
predicate(name, src) == IF name = "op" THEN src.op ELSE TRUE

\* CommandTree::iter_paths
iter_paths(tree) == tree.paths

\* the ExecuteLeaf arm run although raw arguments are left over
execute_leaf_ignores_leftover(executor, raw_args) ==
    IF executor.result = "Ok"
    THEN [result |-> Ok(TRUE), executed |-> <<executor.id>>]
    ELSE [result |-> Err(executor.result), executed |-> <<executor.id>>]

\* the ExecuteLeaf arm of try_is_fitting_path
execute_leaf(executor, raw_args) ==
    IF raw_args = <<>>
    THEN IF executor.result = "Ok"
         THEN [result |-> Ok(TRUE), executed |-> <<executor.id>>]
         ELSE [result |-> Err(executor.result), executed |-> <<executor.id>>]
    ELSE [result |-> Ok(FALSE), executed |-> <<>>]

RECURSIVE path_nodes(_, _, _, _)
\* the loop of try_is_fitting_path over the nodes of the path, from node i
path_nodes(src, path, i, raw_args) ==
    IF i > Len(path)
    THEN [result |-> Ok(FALSE), executed |-> <<>>]
    ELSE LET node == path[i] IN
         CASE node.node_type = "ExecuteLeaf" ->
                  execute_leaf(node.executor, raw_args)
           [] node.node_type = "Literal" ->
                  LET popped == pop(raw_args) IN
                  IF popped.value # Some(node.string)
                  THEN [result |-> Ok(FALSE), executed |-> <<>>]
                  ELSE path_nodes(src, path, i + 1, popped.raw_args)
           [] node.node_type = "Argument" ->
                  LET consumed == consume(node.consumer, raw_args) IN
                  IF consumed.consumed = None
                  THEN [result |-> Ok(FALSE), executed |-> <<>>]
                  ELSE path_nodes(src, path, i + 1, consumed.raw_args)
           [] node.node_type = "Require" ->
                  IF ~predicate(node.predicate, src)
                  THEN [result |-> Ok(FALSE), executed |-> <<>>]
                  ELSE path_nodes(src, path, i + 1, raw_args)

try_is_fitting_path(src, path, raw_args) == path_nodes(src, path, 1, raw_args)

get_tree(map, key) ==
    LET command == get(map, key) IN
    IF command = None THEN Err(CommandNotFound)
    ELSE IF Unwrap(command).kind = "Tree" THEN Ok(Unwrap(command).tree)
    ELSE LET target == get(map, Unwrap(command).target) IN
         IF target # None /\ Unwrap(target).kind = "Tree"
         THEN Ok(Unwrap(target).tree)
         ELSE Err(InternalError)

RECURSIVE try_paths(_, _, _, _, _)
\* the loop of dispatch over the paths of the tree, from path i; executed
\* lists the executors run so far
try_paths(src, paths, i, raw_args, executed) ==
    IF i > Len(paths)
    THEN [result |-> Err(InvalidSyntax), executed |-> executed]
    ELSE LET fitting == try_is_fitting_path(src, paths[i], raw_args)
             ran == executed \o fitting.executed IN
         IF ~fitting.result.ok
         THEN [result |-> fitting.result, executed |-> ran]
         ELSE IF fitting.result.value
         THEN [result |-> Ok(<<>>), executed |-> ran]
         ELSE try_paths(src, paths, i + 1, raw_args, ran)

dispatch(map, src, line) ==
    LET parts == split_whitespace(line) IN
    IF parts = <<>>
    THEN [result |-> Err(EmptyCommand), executed |-> <<>>]
    ELSE LET key == Head(parts)
             raw_args == rev(Tail(parts))
             tree == get_tree(map, key) IN
         IF ~tree.ok
         THEN [result |-> tree, executed |-> <<>>]
         ELSE try_paths(src, iter_paths(tree.value), 1, raw_args, <<>>)

register(map, tree) ==
    LET names == tree.names
        primary_name == Head(names)
        aliased == [k \in DOMAIN map \cup {names[i] : i \in 2..Len(names)} |->
                        IF \E i \in 2..Len(names) : names[i] = k
                        THEN Alias(primary_name)
                        ELSE map[k]]
    IN insert(aliased, primary_name, Tree(tree))

\* executors and whether they succeed
Executor(id, result) == [id |-> id, result |-> result]

Paths ==
    { <<Literal("x"), ExecuteLeaf(Executor("literal", "Ok"))>>,
      <<Argument("word", "word"), ExecuteLeaf(Executor("word", "Ok"))>>,
      <<Require("op"), Argument("n", "number"),
        ExecuteLeaf(Executor("number", "failed"))>>,
      <<ExecuteLeaf(Executor("bare", "Ok"))>>,
      <<Argument("word", "word"), Literal("x"),
        ExecuteLeaf(Executor("both", "Ok"))>> }

PathLists == UNION { [1..n -> Paths] : n \in 0..MaxPaths }

Trees ==
    { [names |-> names, paths |-> paths] :
        names \in {<<"tp">>, <<"tp", "teleport">>}, paths \in PathLists }
    \cup
    { [names |-> names, paths |-> << <<ExecuteLeaf(Executor("stop", "Ok"))>> >>] :
        names \in {<<"stop">>, <<"stop", "tp">>} }

Keys == {"tp", "teleport", "stop", "help"}

ArgLists == UNION { [1..n -> {"x", "1"}] : n \in 0..MaxArgs }

RECURSIVE spaced(_)
\* the words with whitespace before each of them and after the last
spaced(words) ==
    IF words = <<>> THEN <<WHITESPACE>>
    ELSE <<WHITESPACE, Head(words)>> \o spaced(Tail(words))

CommandLines ==
    { <<key>> \o args : key \in Keys, args \in ArgLists }
    \cup { spaced(<<key>> \o args) : key \in Keys, args \in ArgLists }
    \cup { <<>>, <<WHITESPACE>> }

CommandSenders == [op : BOOLEAN]

\* register takes the dispatcher by &mut, dispatch borrows it for its whole
\* lifetime: commands are registered before the command line is dispatched
Register ==
    /\ dispatched = None
    /\ \E tree \in Trees : commands' = register(commands, tree)
    /\ UNCHANGED <<connVars, pc, pending, gameprofile_lock, packets, inbound,
                   auth_result, envVars, nameVars, snapshot, cmd, sender,
                   dispatched>>

Dispatch ==
    /\ dispatched = None
    /\ \E src \in CommandSenders, line \in CommandLines :
          /\ cmd' = line
          /\ sender' = src
          /\ dispatched' = Some(dispatch(commands, src, line))
    /\ UNCHANGED <<connVars, pc, pending, gameprofile_lock, packets, inbound,
                   auth_result, envVars, nameVars, snapshot, commands>>

InitDispatch ==
    /\ InitConnection
    /\ InitEnvironment([login |-> DefaultLogin,
                        resource_pack |-> NoResourcePack,
                        cached_registry |-> <<>>])
    /\ name_in = <<>>
    /\ name_ok = None
    /\ InitDispatcher

NextDispatch ==
    \/ Register
    \/ Dispatch

SpecDispatch == InitDispatch /\ [][NextDispatch]_vars

----------------------------------------------------------------------------
(* Properties *)

\* the inbound packet of the step just taken
In == Unwrap(inbound)

\* a step that handles one inbound packet of the given type
Handles(type) == packets' = packets + 1 /\ Unwrap(inbound').type = type

Disconnect(reason) == [type |-> "Disconnect", reason |-> reason]

Indices(type) == { i \in 1..Len(sent) : sent[i].type = type }

\* every field of the connection but connection_state, closed and sent
otherFields ==
    <<protocol_version, server_address, gameprofile, encryption, compression,
      config, brand, make_player, panicked>>

\* C1: a handshake whose next state is not Status is kicked with a message
\* naming the declared version v and the server's version when v is older,
\* kicked with "Server outdated" when v is newer, and not kicked and moved to
\* Login when v is the server's version; a Status handshake is never kicked.
C1_VersionCheck ==
    [][Handles("Handshake") =>
        LET h == Unwrap(inbound')
            v == h.protocol_version
        IN  IF h.next_state # "Status"
            THEN /\ v < 763 =>
                     /\ closed'
                     /\ Len(sent') = Len(sent) + 1
                     /\ sent'[Len(sent')].type = "Disconnect"
                     /\ sent'[Len(sent')].reason.msg = "Client outdated"
                     /\ sent'[Len(sent')].reason.client = v
                     /\ sent'[Len(sent')].reason.protocol = 763
                 /\ v > 763 =>
                     /\ closed'
                     /\ Len(sent') = Len(sent) + 1
                     /\ sent'[Len(sent')].type = "Disconnect"
                     /\ sent'[Len(sent')].reason.msg = "Server outdated"
                 /\ v = 763 =>
                     /\ ~closed'
                     /\ sent' = sent
                     /\ connection_state' = "Login"
            ELSE /\ ~closed'
                 /\ sent' = sent
                 /\ connection_state' = "Status"]_vars

\* a handshake for Login with an older version has been handled
C1_Witness ==
    /\ IsSome(inbound)
    /\ In.type = "Handshake"
    /\ In.next_state = "Login"
    /\ In.protocol_version < CURRENT_MC_PROTOCOL
    /\ closed
    /\ sent = << Disconnect(ClientOutdated(In.protocol_version)) >>

\* the claim's own condition on a name, over the bytes of the name
BytesAcceptable(name) ==
    LET bytes == as_bytes(name)
    IN  /\ Len(bytes) <= 16
        /\ \A i \in 1..Len(bytes) : bytes[i] > 32 /\ bytes[i] < 127

\* C2: is_valid_player_name accepts a name exactly when it is at most 16
\* bytes long and every byte of it is strictly between 32 and 127.
C2_NameValidator ==
    IsSome(name_ok) => (Unwrap(name_ok) <=> BytesAcceptable(name_in))

\* a name of exactly 16 bytes has been accepted
C2_Witness ==
    /\ IsSome(name_ok)
    /\ Unwrap(name_ok)
    /\ Len(as_bytes(name_in)) = 16

\* C3: with proxy forwarding disabled, a LoginStart with a valid name sends
\* an encryption request (in online and in offline mode); one with an invalid
\* name is kicked with "Invalid characters in username", sends no encryption
\* request, stores no profile and changes nothing else.
C3_LoginStart ==
    [][(Handles("LoginStart") /\ ~ADVANCED_CONFIG.proxy.enabled) =>
        LET l == Unwrap(inbound')
        IN  IF BytesAcceptable(l.name)
            THEN /\ Len(sent') = Len(sent) + 1
                 /\ SubSeq(sent', 1, Len(sent)) = sent
                 /\ sent'[Len(sent')].type = "EncryptionRequest"
                 /\ ~closed'
            ELSE /\ sent' = Append(sent, Disconnect(
                                [msg |-> "Invalid characters in username"]))
                 /\ closed'
                 /\ connection_state' = "Closed"
                 /\ gameprofile' = gameprofile
                 /\ UNCHANGED otherFields]_vars

\* offline mode, no proxy: "Steve" was answered with an encryption request
C3_Witness ==
    /\ ~BASIC_CONFIG.online_mode
    /\ ~ADVANCED_CONFIG.proxy.enabled
    /\ IsSome(inbound)
    /\ In.type = "LoginStart"
    /\ BytesAcceptable(In.name)
    /\ sent # <<>>
    /\ sent[Len(sent)].type = "EncryptionRequest"

\* C4: when compression is enabled SetCompression is sent exactly once in the
\* session, before every LoginSuccess, and compressed framing is on by the
\* time LoginSuccess is sent; when it is disabled SetCompression is never
\* sent and framing is never switched.
C4_CompressionOnce ==
    IF ADVANCED_CONFIG.packet_compression.enabled
    THEN /\ Cardinality(Indices("SetCompression")) <= 1
         /\ \A j \in Indices("LoginSuccess") :
                /\ \E i \in Indices("SetCompression") : i < j
                /\ IsSome(compression)
         /\ IsSome(compression) <=> Indices("SetCompression") # {}
    ELSE /\ Indices("SetCompression") = {}
         /\ compression = None

\* C5: a known-pack acknowledgement sends one RegistryData per cached
\* registry, in the stored order, then one FinishConfig, nothing in between,
\* and changes no field of the connection.
C5_KnownPacks ==
    [][Handles("KnownPacks") =>
        LET n == Len(server.cached_registry)
        IN  /\ Len(sent') = Len(sent) + n + 1
            /\ SubSeq(sent', 1, Len(sent)) = sent
            /\ \A i \in 1..n :
                   sent'[Len(sent) + i] =
                       [type |-> "RegistryData",
                        registry_id |-> server.cached_registry[i].registry_id,
                        entries |-> server.cached_registry[i].registry_entries]
            /\ sent'[Len(sent) + n + 1] = [type |-> "FinishConfig"]
            /\ UNCHANGED <<connection_state, closed, otherFields>>]_vars

\* two different registries were streamed in the stored order
C5_Witness ==
    /\ IsSome(inbound)
    /\ In.type = "KnownPacks"
    /\ Len(server.cached_registry) = 2
    /\ server.cached_registry[1] # server.cached_registry[2]
    /\ Len(sent) >= 3
    /\ sent[Len(sent)].type = "FinishConfig"
    /\ sent[Len(sent) - 1].registry_id = server.cached_registry[2].registry_id

\* the first disconnect notice written to the connection, 0 if none
FirstKick ==
    IF Indices("Disconnect") = {} THEN 0
    ELSE CHOOSE i \in Indices("Disconnect") :
             \A j \in Indices("Disconnect") : i <= j

NoLoginSuccessAfterKick ==
    \A j \in Indices("LoginSuccess") : FirstKick = 0 \/ j < FirstKick

KickedWith(reason) == \E i \in Indices("Disconnect") : sent[i].reason = reason

\* C6: when the identity service returns a profile with a non-empty
\* ban-action list and banned accounts are not allowed, the connection is
\* kicked with "Your account can't join" and no LoginSuccess is sent, neither
\* by the same handler after the kick nor later.
C6_BannedNeverLogsIn ==
    (/\ IsSome(auth_result)
     /\ Unwrap(auth_result).ok
     /\ IsSome(Unwrap(auth_result).profile.profile_actions)
     /\ Unwrap(Unwrap(auth_result).profile.profile_actions) # <<>>
     /\ ~ADVANCED_CONFIG.authentication.allow_banned_players)
    => /\ KickedWith([msg |-> "Your account can't join"])
       /\ NoLoginSuccessAfterKick

\* the error autenticate ends with for a result of the identity service
AuthError(result) ==
    IF ~result.ok THEN Some(result.error)
    ELSE IF \E i \in 1..Len(result.profile.properties) :
                ~result.profile.properties[i].texture_ok
    THEN Some("TextureError")
    ELSE None

\* C7: in online mode, when the authentication fails (service error, missing
\* auth client, invalid texture) the connection is kicked with the error's
\* description and LoginSuccess is not sent: the provisional profile of the
\* client is never confirmed.
C7_AuthFailureNeverLogsIn ==
    (/\ BASIC_CONFIG.online_mode
     /\ IsSome(auth_result)
     /\ IsSome(AuthError(Unwrap(auth_result))))
    => /\ KickedWith([msg |-> Unwrap(AuthError(Unwrap(auth_result)))])
       /\ \A j \in Indices("LoginSuccess") :
              /\ sent[j].uuid # "uuid-client"
              /\ \A i \in Indices("Disconnect") : j < i

\* C8: once a handler has kicked the connection nothing more is done for it:
\* the disconnect notice is the last packet written, and no field of the
\* connection changes afterwards.
C8_KickIsFinal ==
    /\ \A i \in Indices("Disconnect") : i = Len(sent)
    /\ closed => pc = "idle"

Rank(state) ==
    CASE state = "HandShake" -> 0
      [] state = "Status" -> 1
      [] state = "Login" -> 2
      [] state = "Config" -> 3
      [] state = "Play" -> 4
      [] state = "Closed" -> 5

\* C9: the connection state only moves forward in the order Handshake,
\* Status, Login, Config, Play; Closed is reachable from any state and is
\* never left.
C9_MonotonicState ==
    [][/\ Rank(connection_state) <= Rank(connection_state')
       /\ connection_state = "Closed" => connection_state' = "Closed"
       /\ closed => closed']_vars

\* a connection that reached Config was kicked there and is Closed
C9_Witness ==
    /\ connection_state = "Closed"
    /\ IsSome(inbound)
    /\ In.type = "ClientInformationConfig"
    /\ Indices("Branding") # {}

\* C10: an EncryptionResponse whose shared secret cannot be decrypted ends
\* in a kick of the connection citing the failure: the task does not panic,
\* the cipher is not enabled and no LoginSuccess is sent.
C10_DecryptFailureKicks ==
    [][(/\ Handles("EncryptionResponse")
        /\ Unwrap(inbound').shared_secret = "undecryptable")
       => /\ ~panicked'
          /\ closed'
          /\ Len(sent') = Len(sent) + 1
          /\ SubSeq(sent', 1, Len(sent)) = sent
          /\ sent'[Len(sent')].type = "Disconnect"
          /\ encryption' = encryption]_vars

\* the verify token of the encryption request sent last, None if none was sent
IssuedToken ==
    IF Indices("EncryptionRequest") = {} THEN None
    ELSE Some(sent[CHOOSE i \in Indices("EncryptionRequest") :
                       \A j \in Indices("EncryptionRequest") : j <= i].verify_token)

\* C11: an EncryptionResponse whose verify token is not the token issued in
\* this connection's encryption request is kicked: the cipher is not enabled
\* and no LoginSuccess is sent.
C11_VerifyTokenChecked ==
    [][(/\ Handles("EncryptionResponse")
        /\ Unwrap(inbound').shared_secret = "secret16"
        /\ IsSome(IssuedToken)
        /\ Unwrap(inbound').verify_token # Unwrap(IssuedToken))
       => /\ closed'
          /\ encryption' = encryption
          /\ ciphers' = ciphers
          /\ sent' # sent
          /\ sent'[Len(sent')].type = "Disconnect"
          /\ \A i \in (Len(sent) + 1)..Len(sent') :
                 sent'[i].type # "LoginSuccess"]_vars

\* C12: the encryption context and the compression context are each created
\* at most once on a connection and never replaced: a repeated login packet
\* neither re-keys the cipher nor re-enables compression.
C12_ContextsCreatedOnce ==
    /\ ciphers <= 1
    /\ compressions <= 1
    /\ encryption <=> ciphers = 1
    /\ IsSome(compression) <=> compressions = 1

\* C13: the GameProfile is finalized once and immutable afterwards: once
\* LoginSuccess has been sent there is one LoginSuccess, and the stored
\* profile is the profile it announced, whatever packets follow.
C13_ProfileFinalizedOnce ==
    Indices("LoginSuccess") # {} =>
        /\ Cardinality(Indices("LoginSuccess")) = 1
        /\ IsSome(gameprofile)
        /\ \A j \in Indices("LoginSuccess") :
               sent[j] = CLoginSuccess(Unwrap(gameprofile))

\* C14: when banned accounts are allowed and the authenticated profile
\* carries ban-action tags, the connection is kicked with "Your account
\* can't join" exactly when some tag of the profile is not in the allow-list.
C14_AllowList ==
    (/\ ADVANCED_CONFIG.authentication.allow_banned_players
     /\ IsSome(auth_result)
     /\ Unwrap(auth_result).ok
     /\ IsSome(Unwrap(auth_result).profile.profile_actions))
    => LET actions == Unwrap(Unwrap(auth_result).profile.profile_actions)
           allowed == ADVANCED_CONFIG.authentication.allowed_actions
       IN  KickedWith([msg |-> "Your account can't join"])
               <=> \E i \in 1..Len(actions) :
                       \A k \in 1..Len(allowed) : allowed[k] # actions[i]

\* C15: policy enforcement short-circuits: one authentication issues at most
\* one "can't join" kick, and after it no texture is validated and no
\* profile is returned as authenticated.
C15_PolicyShortCircuits ==
    LET kicks == { i \in Indices("Disconnect") :
                       sent[i].reason = [msg |-> "Your account can't join"] }
    IN  /\ Cardinality(kicks) <= 1
        /\ kicks # {} =>
               /\ ~KickedWith([msg |-> "TextureError"])
               /\ gameprofile # Some(Unwrap(auth_result).profile)

\* C16: the identity service is called only in online mode and only on a
\* connection whose cipher is active: never after set_encryption failed.
C16_AuthOnlyWhenEncrypted ==
    pc = "auth" =>
        /\ BASIC_CONFIG.online_mode
        /\ encryption
        /\ In.shared_secret # "wrong_length"
        /\ ~closed

\* C18: the ready-to-spawn flag is set only when the connection is in Play
\* (or Closed), a profile has been finalized and LoginSuccess and
\* FinishConfig have been sent.
C18_ReadyToSpawn ==
    make_player =>
        /\ connection_state \in {"Play", "Closed"}
        /\ IsSome(gameprofile)
        /\ Indices("LoginSuccess") # {}
        /\ Indices("FinishConfig") # {}

\* C17: on LoginAcknowledged the state becomes Config and the packets sent
\* are, in order: the branding, a resource-pack offer if and only if a
\* resource pack is configured (its identifier a function of the URL alone,
\* its prompt present only for a non-empty prompt message), one known-packs
\* list, and nothing else.
C17_LoginAcknowledged ==
    [][Handles("LoginAcknowledged") =>
        LET rc == ADVANCED_CONFIG.resource_pack
            new == SubSeq(sent', Len(sent) + 1, Len(sent'))
            offer == [type |-> "AddResourcePack",
                      uuid |-> [namespace |-> "NAMESPACE_DNS",
                                name |-> rc.resource_pack_url],
                      url |-> rc.resource_pack_url,
                      sha1 |-> rc.resource_pack_sha1,
                      forced |-> rc.force,
                      prompt |-> IF rc.prompt_message = "" THEN <<>>
                                 ELSE << rc.prompt_message >>]
        IN  /\ connection_state' = "Config"
            /\ SubSeq(sent', 1, Len(sent)) = sent
            /\ IF rc.enabled
               THEN /\ Len(new) = 3
                    /\ new[1].type = "Branding"
                    /\ new[2] = offer
                    /\ new[3].type = "KnownPacks"
               ELSE /\ Len(new) = 2
                    /\ new[1].type = "Branding"
                    /\ new[2].type = "KnownPacks"]_vars

\* a resource pack with an empty prompt message was offered without prompt
C17_Witness ==
    /\ IsSome(inbound)
    /\ In.type = "LoginAcknowledged"
    /\ connection_state = "Config"
    /\ ADVANCED_CONFIG.resource_pack.enabled
    /\ ADVANCED_CONFIG.resource_pack.prompt_message = ""
    /\ \E i \in Indices("AddResourcePack") :
           /\ sent[i].prompt = None
           /\ i + 1 \in Indices("KnownPacks")
           /\ i - 1 \in Indices("Branding")

\* C19: while the connection is suspended in the identity-service round trip
\* it holds no lock another task can contend on: an auxiliary reader can
\* read the connection's game profile without waiting.
C19_ReaderNotBlocked ==
    pc = "auth" => (gameprofile_lock = "free" /\ ENABLED ReadGameProfile)

\* the words of a command line, left to right
WordsOf(line) == SelectSeq(line, LAMBDA t : t # WHITESPACE)

\* the name is a registered tree, or an alias of a registered tree
Resolves(map, key) ==
    /\ key \in DOMAIN map
    /\ \/ map[key].kind = "Tree"
       \/ /\ map[key].kind = "Alias"
          /\ map[key].target \in DOMAIN map
          /\ map[map[key].target].kind = "Tree"

ResolvedTree(map, key) ==
    IF map[key].kind = "Tree" THEN map[key].tree ELSE map[map[key].target].tree

\* the position of the path's first execute leaf (0: the path has none)
LeafOf(path) ==
    LET leaves == {k \in 1..Len(path) : path[k].node_type = "ExecuteLeaf"}
    IN IF leaves = {} THEN 0
       ELSE CHOOSE k \in leaves : \A l \in leaves : k <= l

Consuming(path, j) == path[j].node_type \in {"Literal", "Argument"}

\* which argument, counted from the left, node j of the path stands for
ArgIndex(path, j) == Cardinality({i \in 1..j : Consuming(path, i)})

Matches(node, word) ==
    IF node.node_type = "Literal" THEN word = node.string
    ELSE node.consumer = "number" => word \in Numbers

\* the path fits the arguments: up to its execute leaf every requirement
\* holds, literals and arguments match the arguments from left to right,
\* and no argument is left over
Fits(src, path, args) ==
    LET k == LeafOf(path) IN
    /\ k # 0
    /\ ArgIndex(path, k) = Len(args)
    /\ \A j \in 1..(k - 1) :
          /\ path[j].node_type = "Require" => predicate(path[j].predicate, src)
          /\ Consuming(path, j) => Matches(path[j], args[ArgIndex(path, j)])

FirstFitting(src, paths, args) ==
    LET fitting == {i \in 1..Len(paths) : Fits(src, paths[i], args)}
    IN IF fitting = {} THEN 0
       ELSE CHOOSE i \in fitting : \A l \in fitting : i <= l

DispatchedAsSpecified(map, src, line, outcome) ==
    LET key == Head(WordsOf(line))
        args == Tail(WordsOf(line))
        paths == ResolvedTree(map, key).paths
        first == FirstFitting(src, paths, args)
    IN IF first = 0
       THEN /\ outcome.result = Err(InvalidSyntax)
            /\ outcome.executed = <<>>
       ELSE LET executor == paths[first][LeafOf(paths[first])].executor IN
            /\ outcome.executed = <<executor.id>>
            /\ outcome.result.ok <=> executor.result = "Ok"

\* C20: when the first word of the command line resolves to a registered
\* tree, directly or through an alias, dispatch runs the executor of the
\* first path, in iteration order, that fits the arguments and of no other
\* path; it returns Ok exactly when such a path exists and its executor
\* succeeds, and an Invalid Syntax error with no executor run when none fits.
C20_Dispatch ==
    (/\ dispatched # None
     /\ WordsOf(cmd) # <<>>
     /\ Resolves(commands, Head(WordsOf(cmd))))
    => DispatchedAsSpecified(commands, sender, cmd, Unwrap(dispatched))

\* "teleport 1 x", padded with whitespace, reaches the second path of the
\* aliased tree after the first path left an argument unconsumed
C20_Witness ==
    /\ dispatched # None
    /\ Unwrap(dispatched).result.ok
    /\ Unwrap(dispatched).executed = <<"both">>
    /\ WordsOf(cmd) = <<"teleport", "1", "x">>
    /\ Len(cmd) > 3
    /\ Resolves(commands, "teleport")
    /\ commands["teleport"].kind = "Alias"
    /\ Len(ResolvedTree(commands, "teleport").paths) = 2
    /\ ~Fits(sender, ResolvedTree(commands, "teleport").paths[1], <<"1", "x">>)

====
